---------------------------- MODULE Spec2Model ----------------------------
(* Discover-Monitor: the sitemap crawl of discover_monitor/scraper.py        *)
(* (DiscoverMonitor.fetch_sitemap, _parse_sitemap_index,                     *)
(* extract_article_info, save_articles, load_existing_data,                  *)
(* monitor_websites, run) as a state machine.                                *)
EXTENDS Integers, Sequences, FiniteSets, TLC

VARIABLES
    file,                   \* ARTICLES_FILE on disk: whether it exists, its CSV rows
    sitemaps,               \* remote: sitemap location -> response/document
    pages,                  \* remote: article url -> response/page
    pc,                     \* position of monitor_websites
    existing_urls,          \* monitor_websites' local set existing_urls
    max_articles_per_site,  \* the parameter of the current run
    siteIdx,                \* index into WEBSITES of the site being processed
    articles,               \* what fetch_sitemap returned for the current site
    new_articles,           \* the filtered, capped list of the current site
    futures,                \* one record per submitted extraction task
    processed_articles,     \* results collected for the current site
    total_new,              \* the run's tally
    run,                    \* number of monitor_websites calls started
    startUrls,              \* urls of the table when the current run started
    attempted,              \* sites whose sitemap the current run fetched
    saves,                  \* save_articles calls of the current run, per site
    appended,               \* rows by which the table grew in the current run
    truncated,              \* the cap cut some site's list in the current run
    prevRun,                \* the previous run: its cap, and whether the cap cut a list
    lastSave,               \* the last save_articles call: batch and file before
    fetchOut,               \* the last fetch_sitemap call and what it returned
    websites,               \* config.WEBSITES as imported: the site descriptors
    writable,               \* whether ARTICLES_FILE can be written
    output_file,            \* self.output_file of the monitor
    max_workers,            \* self.max_workers of the monitor
    storeAccess,            \* the paths the monitor has opened as the article store
    escaped,                \* the exception that left monitor_websites, "none" if none
    runResult,              \* how run() ended: "none", "returned" or "raised"
    handled,                \* exceptions the per-site handler caught in the current run
    extractedOk,            \* urls whose extraction returned an article in the current run
    extractedNone,          \* urls whose extraction returned None in the current run
    extractOut,             \* the last direct extract_article_info call
    indexOut,               \* the last direct _parse_sitemap_index call
    dateOut                 \* the last direct _parse_date call

vars == <<file, sitemaps, pages, pc, existing_urls, max_articles_per_site,
          siteIdx, articles, new_articles, futures, processed_articles,
          total_new, run, startUrls, attempted, saves, appended, truncated,
          prevRun, lastSave, fetchOut, websites, writable, output_file,
          max_workers, storeAccess, escaped, runResult,
          handled, extractedOk, extractedNone, extractOut, indexOut, dateOut>>

remoteVars == <<sitemaps, pages>>
envVars == <<websites, writable, output_file, max_workers>>
probeVars == <<extractOut, indexOut, dateOut>>
runVars == <<pc, existing_urls, max_articles_per_site, siteIdx, articles,
             new_articles, futures, processed_articles, total_new, run,
             startUrls, attempted, saves, appended, truncated, prevRun,
             escaped, runResult, handled, extractedOk, extractedNone>>

-----------------------------------------------------------------------------
(* Bounds of the model.                                                      *)
MaxBatch == 2
MaxRuns == 2
MaxCap == 2
ExtraChildren == 2
MaxDepth == 3

(* Program constants.                                                        *)
MAX_WORKERS == 5
MaxIndexFanout == 20

-----------------------------------------------------------------------------
(* Values.                                                                   *)
Absent == [exists |-> FALSE, parses |-> TRUE, rows |-> <<>>]
Table(rows) == [exists |-> TRUE, parses |-> TRUE, rows |-> rows]

(* A file that exists and that pandas.read_csv rejects (empty, not a CSV).   *)
Unparsable == [exists |-> TRUE, parses |-> FALSE, rows |-> <<>>]
NaN == "NaN"
SinTitulo == "Sin titulo"

Min(a, b) == IF a < b THEN a ELSE b

Range(s) == {s[i] : i \in 1..Len(s)}

SeqsUpTo(S, n) == UNION {[1..k -> S] : k \in 0..n}

RECURSIVE Concat(_)
Concat(ss) == IF Len(ss) = 0 THEN <<>> ELSE Head(ss) \o Concat(Tail(ss))

(* Article(url, title, ..., source, ...): the fields the crawl reads.        *)
Article(u, t, s) == [url |-> u, title |-> t, source |-> s]

-----------------------------------------------------------------------------
(* The store: pandas round trip of ARTICLES_FILE.                            *)

(* DataFrame.to_csv writes a missing value (None, NaN) as an empty cell.     *)
ToCsvCell(v) == IF v = NaN THEN "" ELSE v

(* Cell texts that pandas.read_csv takes for a missing value by default     *)
(* (keep_default_na): the empty cell and the usual spellings of "no value".  *)
NaTokens == {"", "NA", "N/A", "n/a", "NULL", "null", "NaN", "nan", "None"}

(* pandas.read_csv reads an empty cell, and every NaTokens text, as NaN.     *)
ReadCsvCell(c) == IF c \in NaTokens THEN NaN ELSE c

(* pd.DataFrame(articles).to_csv: one column per field of the Article       *)
(* values, one row per article.                                              *)
to_csv(df) ==
    [i \in 1..Len(df) |-> [c \in DOMAIN df[i] |-> ToCsvCell(df[i][c])]]

read_csv(f) ==
    [i \in 1..Len(f) |-> [c \in DOMAIN f[i] |-> ReadCsvCell(f[i][c])]]

(* drop_duplicates(subset=['url'], keep='first'): a row is kept unless a row *)
(* before it has its url.                                                    *)
RECURSIVE DropSeen(_, _)
DropSeen(seen, df) ==
    IF Len(df) = 0 THEN <<>>
    ELSE IF Head(df).url \in seen THEN DropSeen(seen, Tail(df))
    ELSE <<Head(df)>> \o DropSeen(seen \cup {Head(df).url}, Tail(df))

Reverse(s) == [i \in 1..Len(s) |-> s[Len(s) + 1 - i]]

(* keep='last': the wrong end.                                               *)
DropDuplicatesKeepLast(df) == Reverse(DropSeen({}, Reverse(df)))

drop_duplicates(df) == DropSeen({}, df)

(* save_articles(articles): the file it leaves, given the file it finds.     *)
save_articles(f, batch) ==
    IF Len(batch) = 0 THEN f
    ELSE IF f.exists
         THEN Table(to_csv(drop_duplicates(read_csv(f.rows) \o batch)))
         ELSE Table(to_csv(batch))

(* load_existing_data and the set built from its 'url' column.               *)
load_existing_data(f) == IF f.exists THEN read_csv(f.rows) ELSE <<>>

(* pd.read_csv raises (EmptyDataError, ParserError); nothing catches it.     *)
LoadRaises(f) == f.exists /\ ~f.parses

ExistingUrls(f) == {r.url : r \in Range(load_existing_data(f))}

Rows(f) == f.rows

CountUrl(f, u) == Cardinality({i \in 1..Len(Rows(f)) : Rows(f)[i].url = u})

FirstRow(f, u) ==
    LET i == CHOOSE k \in 1..Len(Rows(f)) :
                 /\ Rows(f)[k].url = u
                 /\ \A j \in 1..(k-1) : Rows(f)[j].url # u
    IN Rows(f)[i]



-----------------------------------------------------------------------------
(* The remote world: sitemap documents and article pages.                    *)
SiteLoc(i) == "s" \o ToString(i)
ChildLoc(k) == "c" \o ToString(k)
Url(k) == "u" \o ToString(k)

Entry(u, t, n) == [url |-> u, title |-> t, news |-> n]

ErrorDoc == [status |-> "error", idxTok |-> FALSE, newsTok |-> FALSE,
             wellFormed |-> TRUE, locs |-> <<>>, entries |-> <<>>]
IndexDoc(ls) == [status |-> "ok", idxTok |-> TRUE, newsTok |-> FALSE,
                 wellFormed |-> TRUE, locs |-> ls, entries |-> <<>>]
NewsDoc(es) == [status |-> "ok", idxTok |-> FALSE, newsTok |-> TRUE,
                wellFormed |-> TRUE, locs |-> <<>>, entries |-> es]
StdDoc(es) == [status |-> "ok", idxTok |-> FALSE, newsTok |-> FALSE,
               wellFormed |-> TRUE, locs |-> <<>>, entries |-> es]

(* An index document on which ET.fromstring raises ParseError.               *)
MalformedIndexDoc(ls) == [IndexDoc(ls) EXCEPT !.wellFormed = FALSE]

(* A <loc> text that starts with neither http:// nor https://. SiteLoc and   *)
(* ChildLoc stand for absolute locations.                                    *)
RelLoc(k) == "/rel" \o ToString(k)
RelLocs == {RelLoc(1), RelLoc(2)}

(* url.startswith(('http://', 'https://'))                                   *)
IsAbsolute(l) == l \notin RelLocs

(* The ElementTree path: blank texts and relative locations are skipped.     *)
ParsedLocs(locs) == SelectSeq(locs, LAMBDA l : l # "" /\ IsAbsolute(l))

(* The BeautifulSoup path: blank texts are skipped, nothing else.            *)
FallbackLocs(locs) == SelectSeq(locs, LAMBDA l : l # "")

(* _parse_sitemap_index: the <loc> texts of the document, in document order; *)
(* after a ParseError the texts BeautifulSoup finds.                         *)
parse_sitemap_index(doc) ==
    IF doc.wellFormed THEN ParsedLocs(doc.locs) ELSE FallbackLocs(doc.locs)

(* A <url> entry with everything the parsers look at: the <loc> text, the    *)
(* news:news block, the title, news:publication_date, lastmod, description   *)
(* and image:loc texts ("" when the element is absent).                      *)
FullEntry(u, n, t, pub, lastmod, desc, img) ==
    [url |-> u, title |-> t, news |-> n, pubdate |-> pub, lastmod |-> lastmod,
     description |-> desc, image |-> img]

IsFull(e) == "lastmod" \in DOMAIN e

(* The texts one of the four strptime formats of the parsers accepts.        *)
SitemapDateTexts == {"2024-01-01", "2024-01-01T10:00:00"}

(* The date loop: the parsed date, or None (here "") when no format matches. *)
ParseSitemapDate(text) == IF text \in SitemapDateTexts THEN text ELSE ""

(* urlparse(url).path.strip('/').split('/')[0]                               *)
SectionOf(u) == "section:" \o u

(* Article(url=..., title=..., image_url=image_url, ...) of the news parser. *)
NewsArticle(e) ==
    LET t == IF e.title # "" THEN e.title ELSE SinTitulo
    IN IF IsFull(e)
       THEN [url |-> e.url, title |-> t, section |-> SectionOf(e.url),
             description |-> "", source |-> "", is_own_site |-> "False",
             published_date |-> ParseSitemapDate(e.pubdate),
             last_modified |-> "", image_url |-> e.image]
       ELSE Article(e.url, t, "")

(* Article(url=..., last_modified=lastmod) of the standard parser: image_url *)
(* is computed and not passed to Article, so it keeps its default None.      *)
StdArticle(e) ==
    IF IsFull(e)
    THEN [url |-> e.url, title |-> e.title, section |-> SectionOf(e.url),
          description |-> e.description, source |-> "", is_own_site |-> "False",
          published_date |-> "", last_modified |-> ParseSitemapDate(e.lastmod),
          image_url |-> ""]
    ELSE Article(e.url, e.title, "")

(* Every <url> kept, news block or not.                                      *)
ParseNewsNoFilter(doc) ==
    LET es == SelectSeq(doc.entries, LAMBDA e : e.url # "")
    IN [i \in 1..Len(es) |-> NewsArticle(es[i])]

(* _parse_news_sitemap: one Article per <url> that has a <loc> text and a    *)
(* news:news block.                                                          *)
parse_news_sitemap(doc) ==
    LET es == SelectSeq(doc.entries, LAMBDA e : e.url # "" /\ e.news)
    IN [i \in 1..Len(es) |-> NewsArticle(es[i])]

(* _parse_standard_sitemap: one Article per <url> that has a <loc> text,     *)
(* title '' when absent.                                                     *)
parse_standard_sitemap(doc) ==
    LET es == SelectSeq(doc.entries, LAMBDA e : e.url # "")
    IN [i \in 1..Len(es) |-> StdArticle(es[i])]

(* The news test made before the index test.                                 *)
ClassifyNewsFirst(doc) ==
    IF doc.newsTok THEN "news" ELSE IF doc.idxTok THEN "index" ELSE "standard"

(* if 'sitemapindex' in text or content-type ... elif 'newssitemap' ... else *)
Classify(doc) ==
    IF doc.idxTok THEN "index" ELSE IF doc.newsTok THEN "news" ELSE "standard"

Perms(S) == {p \in [1..Cardinality(S) -> S] : \A i, j \in DOMAIN p : i # j => p[i] # p[j]}

(* One element of each set of a sequence of sets, in every way.              *)
RECURSIVE Product(_)
Product(sets) ==
    IF Len(sets) = 0 THEN {<<>>}
    ELSE {<<h>> \o t : h \in Head(sets), t \in Product(Tail(sets))}

Call(parent, pos, loc) == [parent |-> parent, pos |-> pos, loc |-> loc]

Result(raised, arts, calls, cut) ==
    [raised |-> raised, articles |-> arts, calls |-> calls, cut |-> cut]

(* sitemap_urls[:20] without the slice.                                      *)
IndexSliceUncapped(locs) == locs

(* sitemap_urls[:20]                                                         *)
IndexSlice(locs) == SubSeq(locs, 1, Min(Len(locs), MaxIndexFanout))

(* except requests.RequestException that lets the error out.                 *)
OnRequestExceptionRaise(me) == Result(TRUE, <<>>, {me}, FALSE)

(* except requests.RequestException: log, return [].                         *)
OnRequestException(me) == Result(FALSE, <<>>, {me}, FALSE)

(* fetch_sitemap(sitemap_url): the results it can return. A result carries   *)
(* the flattened articles, whether an exception left the call, and the GETs  *)
(* made (calls: parent document, position in it, location). The children of  *)
(* an index are joined in completion order, which the pool does not fix:     *)
(* every order of the non-empty child lists is a possible result. A child    *)
(* whose future raises adds nothing (the except around future.result()).     *)
(* d bounds the nesting of indexes that is followed; cut marks a result      *)
(* whose recursion was stopped by d.                                         *)
RECURSIVE FetchSitemapAt(_, _, _, _, _)
FetchSitemapAt(sm, loc, parent, pos, d) ==
    LET doc == sm[loc]
        me == Call(parent, pos, loc)
    IN IF d = 0 THEN {Result(FALSE, <<>>, {me}, TRUE)}
       ELSE IF doc.status = "error" THEN {OnRequestException(me)}
       ELSE IF Classify(doc) = "index" THEN
           LET urls == IndexSlice(parse_sitemap_index(doc))
               n == Len(urls)
               childSets == [i \in 1..n |-> FetchSitemapAt(sm, urls[i], loc, i, d - 1)]
               Joined(c) ==
                   LET live == {i \in 1..n : ~c[i].raised /\ Len(c[i].articles) > 0}
                   IN {Result(FALSE,
                              Concat([k \in 1..Cardinality(live) |-> c[p[k]].articles]),
                              {me} \cup UNION {c[i].calls : i \in 1..n},
                              \E i \in 1..n : c[i].cut)
                       : p \in Perms(live)}
           IN UNION {Joined(c) : c \in Product(childSets)}
       ELSE IF Classify(doc) = "news" THEN
           {Result(FALSE, parse_news_sitemap(doc), {me}, FALSE)}
       ELSE
           {Result(FALSE, parse_standard_sitemap(doc), {me}, FALSE)}

fetch_sitemap(sm, loc) == FetchSitemapAt(sm, loc, "top", 0, MaxDepth)

-----------------------------------------------------------------------------
(* extract_article_info.                                                     *)
(* What the response for an article url holds: the <title> tag, og:title,     *)
(* the content of the description meta tag, og:image, the first <img src>    *)
(* ("none", "ok", or "bad": a src on which urljoin raises ValueError) and    *)
(* the date the date selectors yield.                                        *)
HtmlPage(has, t, og, desc, ogi, img, date) ==
    [status |-> "ok", hasTitle |-> has, title |-> t, og |-> og, desc |-> desc,
     ogImage |-> ogi, img |-> img, date |-> date]

Page(st, has, t, og) ==
    [HtmlPage(has, t, og, "", "", "none", "") EXCEPT !.status = st]
OkPage(t) == Page("ok", TRUE, t, "")
FailPage == Page("error", FALSE, "", "")      \* requests.RequestException
NonHtmlPage == Page("nonhtml", FALSE, "", "") \* content-type without text/html
BoomPage == Page("boom", FALSE, "", "")       \* any other exception while parsing

None == <<>>
Some(a) == <<a>>

-----------------------------------------------------------------------------
(* _parse_date.  A date text is modelled by its shape and its two leading    *)
(* numbers: "iso" is YYYY-a-b, "slash" is a/b/YYYY, each with or without a   *)
(* time of day; "loose" is a text only dateutil reads, "junk" a text nothing *)
(* reads; "none" is None (or any value that is not a str) and "empty" is ''. *)
DateText(kind, a, b, time) == [kind |-> kind, a |-> a, b |-> b, time |-> time]
NoText == DateText("none", 0, 0, FALSE)

(* The days strptime accepts for a month of the (non-leap) year.             *)
DaysIn(m) == IF m = 2 THEN 28 ELSE IF m \in {4, 6, 9, 11} THEN 30 ELSE 31
ValidDate(m, d) == m \in 1..12 /\ d \in 1..DaysIn(m)
Date(m, d) == [month |-> m, day |-> d]

(* The American formats tried before the European ones.                      *)
DateFormatsAmericanFirst ==
    <<"%Y-%m-%dT%H:%M:%S%z", "%Y-%m-%dT%H:%M:%S", "%Y-%m-%d %H:%M:%S", "%Y-%m-%d",
      "%m/%d/%Y %H:%M:%S", "%m/%d/%Y", "%d/%m/%Y %H:%M:%S", "%d/%m/%Y",
      "%a, %d %b %Y %H:%M:%S %z", "%a, %d %b %Y %H:%M:%S", "%a %b %d %H:%M:%S %Y">>

(* date_formats, in the order of the list.                                   *)
DateFormats ==
    <<"%Y-%m-%dT%H:%M:%S%z", "%Y-%m-%dT%H:%M:%S", "%Y-%m-%d %H:%M:%S", "%Y-%m-%d",
      "%d/%m/%Y %H:%M:%S", "%d/%m/%Y", "%m/%d/%Y %H:%M:%S", "%m/%d/%Y",
      "%a, %d %b %Y %H:%M:%S %z", "%a, %d %b %Y %H:%M:%S", "%a %b %d %H:%M:%S %Y">>

(* datetime.strptime(date_str, fmt) does not raise ValueError.               *)
Matches(fmt, s) ==
    CASE fmt = "%Y-%m-%dT%H:%M:%S" -> s.kind = "iso" /\ s.time /\ ValidDate(s.a, s.b)
      [] fmt = "%Y-%m-%d"          -> s.kind = "iso" /\ ~s.time /\ ValidDate(s.a, s.b)
      [] fmt = "%d/%m/%Y %H:%M:%S" -> s.kind = "slash" /\ s.time /\ ValidDate(s.b, s.a)
      [] fmt = "%d/%m/%Y"          -> s.kind = "slash" /\ ~s.time /\ ValidDate(s.b, s.a)
      [] fmt = "%m/%d/%Y %H:%M:%S" -> s.kind = "slash" /\ s.time /\ ValidDate(s.a, s.b)
      [] fmt = "%m/%d/%Y"          -> s.kind = "slash" /\ ~s.time /\ ValidDate(s.a, s.b)
      [] OTHER -> FALSE

(* The date strptime returns for a format that matches.                      *)
Strptime(fmt, s) ==
    IF fmt \in {"%d/%m/%Y %H:%M:%S", "%d/%m/%Y"} THEN Date(s.b, s.a) ELSE Date(s.a, s.b)

(* dateutil.parser.parse: the date of a text it reads, ValueError otherwise. *)
DateutilReads(s) == s.kind = "loose"

(* _parse_date(date_str); dateutil says whether the import succeeds.         *)
parse_date(s, dateutil) ==
    IF s.kind \in {"none", "empty"} THEN None
    ELSE LET ms == {i \in 1..Len(DateFormats) : Matches(DateFormats[i], s)}
         IN IF ms # {}
            THEN Some(Strptime(DateFormats[CHOOSE i \in ms : \A j \in ms : i <= j], s))
            ELSE IF dateutil /\ DateutilReads(s) THEN Some(Date(s.a, s.b))
            ELSE None

(* The title branch: only when the article has no title or the placeholder.  *)
ExtractTitle(title, page) ==
    IF title = "" \/ title = SinTitulo
    THEN IF page.hasTitle THEN page.title
         ELSE IF page.og # "" THEN page.og
         ELSE SinTitulo
    ELSE title

(* article.description = description, whatever it was.                       *)
ExtractDescription(description, page) == page.desc

ImageOf(url) == "img:" \o url

(* if not article.image_url: og:image, else urljoin(url, first <img src>).   *)
ExtractImage(image_url, page, url) ==
    IF image_url # "" THEN image_url
    ELSE IF page.ogImage # "" THEN page.ogImage
    ELSE IF page.img = "ok" THEN ImageOf(url)
    ELSE image_url

(* urljoin raises ValueError on the src; nothing inside the image branch     *)
(* catches it.                                                               *)
ImageRaises(image_url, page) ==
    image_url = "" /\ page.ogImage = "" /\ page.img = "bad"

(* if not article.published_date: the first selector that yields a date.     *)
ExtractDate(published_date, page) ==
    IF published_date # "" THEN published_date
    ELSE IF page.date # "" THEN page.date
    ELSE published_date

Has(article, f) == f \in DOMAIN article

(* The assignments of a successful extraction, on the fields the article     *)
(* value carries.                                                            *)
Fill(article, page) ==
    LET a1 == [article EXCEPT !.title = ExtractTitle(article.title, page)]
        a2 == IF Has(article, "description")
              THEN [a1 EXCEPT !.description = ExtractDescription(article.description, page)]
              ELSE a1
        a3 == IF Has(article, "image_url")
              THEN [a2 EXCEPT !.image_url = ExtractImage(article.image_url, page, article.url)]
              ELSE a2
    IN IF Has(article, "published_date")
       THEN [a3 EXCEPT !.published_date = ExtractDate(article.published_date, page)]
       ELSE a3

(* except Exception: log, return None.                                       *)
OnUnexpected(article) == None

(* extract_article_info(article): None, or the article it was given, filled. *)
extract_article_info(article, page) ==
    IF page.status = "error" THEN None
    ELSE IF page.status = "nonhtml" THEN None
    ELSE IF page.status = "boom" THEN OnUnexpected(article)
    ELSE IF Has(article, "image_url") /\ ImageRaises(article.image_url, page)
    THEN OnUnexpected(article)
    ELSE Some(Fill(article, page))

-----------------------------------------------------------------------------
(* monitor_websites.                                                         *)
WEBSITES ==
    << [name |-> "A", sitemap |-> SiteLoc(1), is_own_site |-> TRUE],
       [name |-> "B", sitemap |-> SiteLoc(2), is_own_site |-> FALSE] >>

Sites == 1..Len(WEBSITES)

(* for article in articles: article.source = site_name                       *)
(* str(bool), as to_csv writes it.                                           *)
PyBool(b) == IF b THEN "True" ELSE "False"

(* article.source = site_name; article.is_own_site = site.get(..., False)    *)
Stamp(arts, site) ==
    [i \in 1..Len(arts) |->
        LET a == [arts[i] EXCEPT !.source = site.name]
        IN IF Has(a, "is_own_site")
           THEN [a EXCEPT !.is_own_site =
                    PyBool("is_own_site" \in DOMAIN site /\ site.is_own_site)]
           ELSE a]

Unknown(arts, known) == SelectSeq(arts, LAMBDA a : a.url \notin known)

(* The cap taken before the filter.                                          *)
FilterNewCapFirst(arts, known, cap) ==
    Unknown(SubSeq(arts, 1, Min(Len(arts), cap)), known)

(* Nothing filtered.                                                         *)
FilterNewNoFilter(arts, known, cap) == SubSeq(arts, 1, Min(Len(arts), cap))

(* [a for a in articles if a.url not in existing_urls][:max_articles_per_site] *)
FilterNew(arts, known, cap) ==
    LET u == Unknown(arts, known) IN SubSeq(u, 1, Min(Len(u), cap))

(* executor.submit(self.extract_article_info, article) for each new article. *)
Submit(new) == [i \in 1..Len(new) |-> [article |-> new[i], state |-> "queued", result |-> None]]

(* The result replaces the list.                                             *)
CollectResultOverwrite(processed, result) ==
    IF result # None THEN <<result[1]>> ELSE processed

(* A failed task empties the batch.                                          *)
CollectResultAbort(processed, result) ==
    IF result # None THEN Append(processed, result[1]) ELSE <<>>

(* if result: processed_articles.append(result)                              *)
CollectResult(processed, result) ==
    IF result # None THEN Append(processed, result[1]) ELSE processed

(* The set left as it was.                                                   *)
AddKnownNothing(known, result) == known

(* The known set after a result: existing_urls.add(result.url).              *)
AddKnown(known, result) ==
    IF result # None THEN known \cup {result[1].url} ELSE known

(* The with block left as soon as one future is collected.                   *)
BatchCompleteEarly(futs) == \E i \in 1..Len(futs) : futs[i].state = "collected"

(* The with block is left when as_completed has yielded every future.        *)
BatchComplete(futs) == \A i \in 1..Len(futs) : futs[i].state = "collected"

(* A failed site ends the loop.                                              *)
AfterSiteBreak(i) == Len(WEBSITES) + 1

(* continue, the end of the loop body and the except handler: next site.     *)
AfterSite(i) == i + 1

InFlight(futs) == Cardinality({i \in 1..Len(futs) : futs[i].state = "running"})

(* run() re-raises whatever it catches.                                      *)
RunHandlersReraise(exc) == IF exc = "none" THEN "returned" ELSE "raised"

(* run(): except KeyboardInterrupt: log a warning (and return);              *)
(* except Exception: log, raise.                                             *)
RunHandlers(exc) ==
    IF exc = "none" THEN "returned"
    ELSE IF exc = "KeyboardInterrupt" THEN "returned"
    ELSE "raised"

(* A descriptor is a dict: site['name'] and site['sitemap'] raise KeyError   *)
(* when the key is missing.                                                  *)
HasKeys(site) == "name" \in DOMAIN site /\ "sitemap" \in DOMAIN site

Caught(i, exc) == [site |-> i, exc |-> exc]

NoRun == [ended |-> "none", cap |-> 0]
NoSave == [called |-> FALSE, batch |-> <<>>, before |-> Absent]
NoFetch == [called |-> FALSE, loc |-> "", result |-> Result(FALSE, <<>>, {}, FALSE)]
NoExtract == [called |-> FALSE, article |-> <<>>, result |-> None]
NoIndex == [called |-> FALSE, doc |-> ErrorDoc, result |-> <<>>]
NoDate == [called |-> FALSE, text |-> NoText, dateutil |-> FALSE, result |-> None]

(* config.ARTICLES_FILE                                                      *)
ARTICLES_FILE == "data/articles.csv"

(* DiscoverMonitor(output_file, max_workers): "" stands for output_file=None *)
(* and the default is os.path.join(DATA_DIR, 'articles.csv').                *)
DefaultMaxWorkers == 5
OutputFile(arg) == IF arg = "" THEN "data/articles.csv" ELSE arg

(* The path load_existing_data and save_articles open: the module constant,  *)
(* whatever self.output_file is.                                             *)
StorePath(out) == ARTICLES_FILE

(* DiscoverMonitor(): the monitor run() is called on in scraper.main.        *)
DefaultMonitor ==
    /\ output_file = OutputFile("")
    /\ max_workers = DefaultMaxWorkers
    /\ storeAccess = {}

(* monitor_websites(max_articles_per_site): load_existing_data, the set.     *)
StartRun(cap) ==
    /\ pc \in {"idle", "done", "stopped"}
    /\ run < MaxRuns
    /\ run' = run + 1
    /\ max_articles_per_site' = cap
    /\ IF LoadRaises(file)
       THEN \* load_existing_data raises, outside every try of monitor_websites
            /\ pc' = "stopped"
            /\ escaped' = "ParserError"
            /\ runResult' = RunHandlers("ParserError")
            /\ existing_urls' = {}
       ELSE /\ pc' = "site"
            /\ escaped' = "none"
            /\ runResult' = "none"
            /\ existing_urls' = ExistingUrls(file)
    /\ handled' = {}
    /\ extractedOk' = {}
    /\ extractedNone' = {}
    /\ startUrls' = {r.url : r \in Range(Rows(file))}
    /\ total_new' = 0
    /\ siteIdx' = 1
    /\ articles' = <<>>
    /\ new_articles' = <<>>
    /\ futures' = <<>>
    /\ processed_articles' = <<>>
    /\ attempted' = {}
    /\ saves' = [i \in Sites |-> 0]
    /\ appended' = 0
    /\ truncated' = FALSE
    /\ prevRun' = IF pc = "idle" THEN NoRun
                  ELSE [ended |-> IF pc = "stopped" THEN "aborted"
                                  ELSE IF truncated THEN "capped" ELSE "clean",
                        cap |-> max_articles_per_site]
    /\ storeAccess' = storeAccess \cup {StorePath(output_file)}
    /\ UNCHANGED <<file, remoteVars, lastSave, fetchOut, envVars, probeVars>>

(* The loop body up to the submission of the site's tasks.                   *)
BeginSite ==
    /\ pc = "site"
    /\ siteIdx \in Sites
    /\ IF ~HasKeys(websites[siteIdx])
       THEN \* KeyError inside the try; except Exception: log, next site
            /\ siteIdx' = AfterSite(siteIdx)
            /\ handled' = handled \cup {Caught(siteIdx, "KeyError")}
            /\ UNCHANGED <<pc, articles, new_articles, futures,
                           processed_articles, truncated, attempted>>
       ELSE
       \E out \in fetch_sitemap(sitemaps, websites[siteIdx].sitemap) :
         LET arts == Stamp(out.articles, websites[siteIdx])
             new == FilterNew(arts, existing_urls, max_articles_per_site)
         IN /\ attempted' = attempted \cup {siteIdx}
            /\ handled' = IF out.raised
                          THEN handled \cup {Caught(siteIdx, "Exception")}
                          ELSE handled
            /\ IF out.raised
               THEN \* except Exception: log, next site
                    /\ siteIdx' = AfterSite(siteIdx)
                    /\ UNCHANGED <<pc, articles, new_articles, futures,
                                   processed_articles, truncated>>
               ELSE IF Len(arts) = 0
               THEN \* if not articles: continue
                    /\ siteIdx' = AfterSite(siteIdx)
                    /\ articles' = arts
                    /\ UNCHANGED <<pc, new_articles, futures,
                                   processed_articles, truncated>>
               ELSE IF Len(new) = 0
               THEN \* if not new_articles: continue
                    /\ siteIdx' = AfterSite(siteIdx)
                    /\ articles' = arts
                    /\ new_articles' = new
                    /\ truncated' = (truncated \/
                           Len(Unknown(arts, existing_urls)) > max_articles_per_site)
                    /\ UNCHANGED <<pc, futures, processed_articles>>
               ELSE /\ articles' = arts
                    /\ new_articles' = new
                    /\ truncated' = (truncated \/
                           Len(Unknown(arts, existing_urls)) > max_articles_per_site)
                    /\ processed_articles' = <<>>
                    /\ futures' = Submit(new)
                    /\ pc' = "extract"
                    /\ UNCHANGED siteIdx
    /\ UNCHANGED <<file, remoteVars, existing_urls, max_articles_per_site,
                   total_new, run, startUrls, saves, appended, prevRun,
                   lastSave, fetchOut, envVars, storeAccess, probeVars, escaped, runResult,
                   extractedOk, extractedNone>>

(* A pool thread takes the oldest queued task (ThreadPoolExecutor).          *)
WorkerStart ==
    /\ pc = "extract"
    /\ InFlight(futures) < MAX_WORKERS
    /\ \E i \in 1..Len(futures) :
         /\ futures[i].state = "queued"
         /\ \A j \in 1..(i-1) : futures[j].state # "queued"
         /\ futures' = [futures EXCEPT ![i].state = "running"]
    /\ UNCHANGED <<file, remoteVars, pc, existing_urls, max_articles_per_site,
                   siteIdx, articles, new_articles, processed_articles,
                   total_new, run, startUrls, attempted, saves, appended,
                   truncated, prevRun, lastSave, fetchOut, envVars, storeAccess, probeVars,
                   escaped, runResult, handled, extractedOk, extractedNone>>

(* The task runs extract_article_info on its article.                        *)
WorkerFinish ==
    /\ pc = "extract"
    /\ \E i \in 1..Len(futures) :
         /\ futures[i].state = "running"
         /\ LET result == extract_article_info(futures[i].article,
                                               pages[futures[i].article.url])
            IN /\ futures' = [futures EXCEPT ![i].state = "done",
                                             ![i].result = result]
               /\ IF result # None
                  THEN /\ extractedOk' = extractedOk \cup {futures[i].article.url}
                       /\ UNCHANGED extractedNone
                  ELSE /\ extractedNone' = extractedNone \cup {futures[i].article.url}
                       /\ UNCHANGED extractedOk
    /\ UNCHANGED <<file, remoteVars, pc, existing_urls, max_articles_per_site,
                   siteIdx, articles, new_articles, processed_articles,
                   total_new, run, startUrls, attempted, saves, appended,
                   truncated, prevRun, lastSave, fetchOut, envVars, storeAccess, probeVars,
                   escaped, runResult, handled>>

(* as_completed yields a finished future: the body of the for loop.          *)
Collect ==
    /\ pc = "extract"
    /\ \E i \in 1..Len(futures) :
         /\ futures[i].state = "done"
         /\ futures' = [futures EXCEPT ![i].state = "collected"]
         /\ processed_articles' = CollectResult(processed_articles, futures[i].result)
         /\ existing_urls' = AddKnown(existing_urls, futures[i].result)
    /\ UNCHANGED <<file, remoteVars, pc, max_articles_per_site, siteIdx,
                   articles, new_articles, total_new, run, startUrls,
                   attempted, saves, appended, truncated, prevRun, lastSave,
                   fetchOut, envVars, storeAccess, probeVars, escaped, runResult, handled,
                   extractedOk, extractedNone>>

(* After the with block: save the batch, count it, go to the next site.      *)
EndSite ==
    /\ pc = "extract"
    /\ BatchComplete(futures)
    /\ pc' = "site"
    /\ siteIdx' = AfterSite(siteIdx)
    /\ storeAccess' = IF Len(processed_articles) > 0
                      THEN storeAccess \cup {StorePath(output_file)}
                      ELSE storeAccess
    /\ IF Len(processed_articles) > 0 /\ writable
       THEN /\ file' = save_articles(file, processed_articles)
            /\ lastSave' = [called |-> TRUE, batch |-> processed_articles,
                            before |-> file]
            /\ total_new' = total_new + Len(processed_articles)
            /\ saves' = [saves EXCEPT ![siteIdx] = @ + 1]
            /\ appended' = appended + Len(Rows(file')) - Len(Rows(file))
            /\ UNCHANGED handled
       ELSE IF Len(processed_articles) > 0
       THEN \* df.to_csv raises OSError; except Exception: log, next site
            /\ saves' = [saves EXCEPT ![siteIdx] = @ + 1]
            /\ handled' = handled \cup {Caught(siteIdx, "OSError")}
            /\ UNCHANGED <<file, lastSave, total_new, appended>>
       ELSE UNCHANGED <<file, lastSave, total_new, saves, appended, handled>>
    /\ UNCHANGED <<remoteVars, existing_urls, max_articles_per_site, articles,
                   new_articles, futures, processed_articles, run, startUrls,
                   attempted, truncated, prevRun, fetchOut, envVars, probeVars,
                   escaped, runResult, extractedOk, extractedNone>>

(* The loop is over: the closing log line; run() logs and returns.           *)
Finish ==
    /\ pc = "site"
    /\ siteIdx \notin Sites
    /\ pc' = "done"
    /\ runResult' = RunHandlers(escaped)
    /\ UNCHANGED <<file, remoteVars, existing_urls, max_articles_per_site,
                   siteIdx, articles, new_articles, futures,
                   processed_articles, total_new, run, startUrls, attempted,
                   saves, appended, truncated, prevRun, lastSave, fetchOut,
                   envVars, storeAccess, probeVars, escaped, handled, extractedOk,
                   extractedNone>>

(* SIGINT: KeyboardInterrupt is raised in the main thread. It is not an      *)
(* Exception, so neither the handler around future.result() nor the per-site *)
(* handler catches it: the with block is left (the pool is shut down), the   *)
(* rest of the loop body and the loop are skipped, and run() catches it.     *)
Interrupt ==
    /\ pc \in {"site", "extract"}
    /\ pc' = "stopped"
    /\ escaped' = "KeyboardInterrupt"
    /\ runResult' = RunHandlers("KeyboardInterrupt")
    /\ UNCHANGED <<file, remoteVars, existing_urls, max_articles_per_site,
                   siteIdx, articles, new_articles, futures,
                   processed_articles, total_new, run, startUrls, attempted,
                   saves, appended, truncated, prevRun, lastSave, fetchOut,
                   envVars, storeAccess, probeVars, handled, extractedOk, extractedNone>>

-----------------------------------------------------------------------------
(* The worlds the crawl is run against.                                      *)
MainUrls == {Url(1), Url(2), Url(3)}
MainLocs == {SiteLoc(1), SiteLoc(2), ChildLoc(1), ChildLoc(2)}

Plain(u) == Entry(u, "", FALSE)

S1Docs == { IndexDoc(<<ChildLoc(1), ChildLoc(2)>>),
            StdDoc(<<Plain(Url(1)), Plain(Url(2)), Plain(Url(3))>>),
            StdDoc(<<Plain(Url(1)), Plain(Url(1))>>),
            ErrorDoc }
S2Docs == { StdDoc(<<Plain(Url(2)), Entry(Url(3), "T3", FALSE)>>),
            NewsDoc(<<Entry(Url(3), "", TRUE), Entry(Url(1), "T1", FALSE)>>),
            ErrorDoc }
C1Docs == { StdDoc(<<Plain(Url(1))>>), ErrorDoc }
C2Doc == StdDoc(<<Plain(Url(2)), Plain(Url(1))>>)

MainSitemaps ==
    { [l \in MainLocs |->
          IF l = SiteLoc(1) THEN a
          ELSE IF l = SiteLoc(2) THEN b
          ELSE IF l = ChildLoc(1) THEN c
          ELSE C2Doc]
      : a \in S1Docs, b \in S2Docs,
        c \in C1Docs }

MainPages ==
    { [u \in MainUrls |->
          IF u = Url(1) THEN p1 ELSE IF u = Url(2) THEN p2 ELSE p3]
      : p1 \in {OkPage("P1"), FailPage},
        p2 \in {OkPage("P2"), NonHtmlPage},
        p3 \in {OkPage("P3"), BoomPage} }

Row(u, t, s) == [url |-> u, title |-> t, source |-> s]

MainFiles == {Absent, Table(<<Row(Url(1), "Old", "A")>>)}

Init ==
    /\ file \in MainFiles
    /\ sitemaps \in MainSitemaps
    /\ pages \in MainPages
    /\ pc = "idle"
    /\ existing_urls = {}
    /\ max_articles_per_site = 1
    /\ siteIdx = 1
    /\ articles = <<>>
    /\ new_articles = <<>>
    /\ futures = <<>>
    /\ processed_articles = <<>>
    /\ total_new = 0
    /\ run = 0
    /\ startUrls = {}
    /\ attempted = {}
    /\ saves = [i \in Sites |-> 0]
    /\ appended = 0
    /\ truncated = FALSE
    /\ prevRun = NoRun
    /\ lastSave = NoSave
    /\ fetchOut = NoFetch
    /\ escaped = "none"
    /\ runResult = "none"
    /\ handled = {}
    /\ extractedOk = {}
    /\ extractedNone = {}
    /\ websites = WEBSITES
    /\ writable = TRUE
    /\ DefaultMonitor
    /\ extractOut = NoExtract
    /\ indexOut = NoIndex
    /\ dateOut = NoDate

Next ==
    \/ \E cap \in 1..MaxCap : StartRun(cap)
    \/ BeginSite
    \/ WorkerStart
    \/ WorkerFinish
    \/ Collect
    \/ EndSite
    \/ Finish

Spec == Init /\ [][Next]_vars

-----------------------------------------------------------------------------
(* save_articles called on its own, on any table and any batch.              *)
StoreUrls == {Url(1), Url(2)}
StoredRows == {Row(u, t, "A") : u \in StoreUrls, t \in {"Old", ""}}
BatchArticles == {Article(u, t, "B") : u \in StoreUrls, t \in {"New", ""}}
Batches == SeqsUpTo(BatchArticles, MaxBatch)

(* Tables an earlier run left: one row per url.                              *)
StoreFiles ==
    {Absent} \cup
    {Table(rows) : rows \in {r \in SeqsUpTo(StoredRows, 2) :
                                /\ Len(r) > 0
                                /\ \A i, j \in 1..Len(r) : i # j => r[i].url # r[j].url}}

IdleRun ==
    /\ pc = "idle"
    /\ existing_urls = {}
    /\ max_articles_per_site = 1
    /\ siteIdx = 1
    /\ articles = <<>>
    /\ new_articles = <<>>
    /\ futures = <<>>
    /\ processed_articles = <<>>
    /\ total_new = 0
    /\ run = 0
    /\ startUrls = {}
    /\ attempted = {}
    /\ saves = [i \in Sites |-> 0]
    /\ appended = 0
    /\ truncated = FALSE
    /\ prevRun = NoRun
    /\ escaped = "none"
    /\ runResult = "none"
    /\ handled = {}
    /\ extractedOk = {}
    /\ extractedNone = {}
    /\ lastSave = NoSave
    /\ fetchOut = NoFetch
    /\ extractOut = NoExtract
    /\ indexOut = NoIndex
    /\ dateOut = NoDate

(* A well-formed configuration and a disk that takes writes.                 *)
NoFaults ==
    /\ websites = WEBSITES
    /\ writable = TRUE
    /\ DefaultMonitor

InitStore ==
    /\ file \in StoreFiles
    /\ sitemaps = [l \in MainLocs |-> ErrorDoc]
    /\ pages = [u \in MainUrls |-> FailPage]
    /\ IdleRun
    /\ NoFaults

SaveArticlesCall(batch) ==
    /\ file' = save_articles(file, batch)
    /\ lastSave' = [called |-> TRUE, batch |-> batch, before |-> file]
    /\ storeAccess' = storeAccess \cup {StorePath(output_file)}
    /\ UNCHANGED <<remoteVars, runVars, fetchOut, envVars, probeVars>>

NextStore == \E batch \in Batches : SaveArticlesCall(batch)

SpecStore == InitStore /\ [][NextStore]_vars

-----------------------------------------------------------------------------
(* A sequence of save_articles calls that starts with no file, on articles   *)
(* whose title is an ordinary text or the text "N/A".                        *)
AppendArticles == {Article(u, t, "B") : u \in StoreUrls, t \in {"New", "N/A"}}
AppendBatches == SeqsUpTo(AppendArticles, MaxBatch)

InitAppend ==
    /\ file = Absent
    /\ sitemaps = [l \in MainLocs |-> ErrorDoc]
    /\ pages = [u \in MainUrls |-> FailPage]
    /\ IdleRun
    /\ NoFaults

NextAppend == \E batch \in AppendBatches : SaveArticlesCall(batch)

SpecAppend == InitAppend /\ [][NextAppend]_vars

-----------------------------------------------------------------------------
(* extract_article_info called on its own, on any article and any response.  *)
FullArticle(t, d, img, date) ==
    [url |-> Url(1), title |-> t, section |-> "general", description |-> d,
     source |-> "A", is_own_site |-> "True", published_date |-> date,
     last_modified |-> "lastmod", image_url |-> img]

ExtractArticles ==
    {FullArticle(t, d, img, date) :
        t \in {"", SinTitulo, "T"}, d \in {"", "D"},
        img \in {"", "I"}, date \in {"", "2024-01-01"}}

ExtractPages ==
    {FailPage, NonHtmlPage} \cup
    {HtmlPage(has, IF has THEN "PT" ELSE "", og, desc, ogi, img, date) :
        has \in BOOLEAN, og \in {"", "OG"}, desc \in {"", "PD"},
        ogi \in {"", "OGI"}, img \in {"none", "ok", "bad"},
        date \in {"", "2023-05-05"}}

InitExtract ==
    /\ file = Absent
    /\ sitemaps = [l \in MainLocs |-> ErrorDoc]
    /\ pages \in {[u \in MainUrls |-> p] : p \in ExtractPages}
    /\ IdleRun
    /\ NoFaults

ExtractCall ==
    /\ \E a \in ExtractArticles :
         extractOut' = [called |-> TRUE, article |-> a,
                        result |-> extract_article_info(a, pages[a.url])]
    /\ UNCHANGED <<file, remoteVars, runVars, lastSave, fetchOut, envVars,
                   storeAccess, indexOut, dateOut>>

NextExtract == ExtractCall

SpecExtract == InitExtract /\ [][NextExtract]_vars

-----------------------------------------------------------------------------
(* _parse_sitemap_index called on its own, on index documents of up to       *)
(* MaxLocs <loc> elements, well formed or not.                               *)
MaxLocs == 3
LocTexts == {ChildLoc(1), ChildLoc(2), RelLoc(1), ""}

ParseDocs ==
    {IndexDoc(ls) : ls \in SeqsUpTo(LocTexts, MaxLocs)} \cup
    {MalformedIndexDoc(ls) : ls \in SeqsUpTo(LocTexts, MaxLocs)}

InitParse ==
    /\ file = Absent
    /\ sitemaps = [l \in MainLocs |-> ErrorDoc]
    /\ pages = [u \in MainUrls |-> FailPage]
    /\ IdleRun
    /\ NoFaults

ParseIndexCall ==
    /\ \E doc \in ParseDocs :
         indexOut' = [called |-> TRUE, doc |-> doc,
                      result |-> parse_sitemap_index(doc)]
    /\ UNCHANGED <<file, remoteVars, runVars, lastSave, fetchOut, envVars,
                   storeAccess, extractOut, dateOut>>

NextParse == ParseIndexCall

SpecParse == InitParse /\ [][NextParse]_vars

-----------------------------------------------------------------------------
(* fetch_sitemap called on its own, on a site whose sitemap is an index of   *)
(* up to MaxIndexFanout + ExtraChildren children.                            *)
MaxChildren == MaxIndexFanout + ExtraChildren
FetchLocs == {SiteLoc(1)} \cup {ChildLoc(k) : k \in 1..MaxChildren}

ChildDocA == StdDoc(<<Plain(Url(1)), Plain(Url(2))>>)
ChildDocB == StdDoc(<<Entry(Url(3), "T3", FALSE)>>)

(* An index of m children: child a and child b list articles, child bad      *)
(* fails, every other child is an empty urlset.                              *)
FetchWorld(m, a, b, bad) ==
    [l \in FetchLocs |->
        IF l = SiteLoc(1) THEN IndexDoc([k \in 1..m |-> ChildLoc(k)])
        ELSE IF l = ChildLoc(bad) THEN ErrorDoc
        ELSE IF l = ChildLoc(a) THEN ChildDocA
        ELSE IF l = ChildLoc(b) THEN ChildDocB
        ELSE StdDoc(<<>>)]

(* Where the listing and the failing children are put: at both ends of the   *)
(* index and on both sides of the fan-out cap.                               *)
ProbePositions(n) == {1, MaxIndexFanout, MaxIndexFanout + 1, n}

FetchWorlds(n) ==
    {[l \in FetchLocs |-> IF l = SiteLoc(1) THEN ErrorDoc ELSE ChildDocA]}
    \cup
    {FetchWorld(m, a, b, bad) :
        m \in 0..n,
        a \in ProbePositions(n),
        b \in ProbePositions(n),
        bad \in {0} \cup ProbePositions(n)}

InitFetch ==
    /\ file = Absent
    /\ sitemaps \in FetchWorlds(MaxChildren)
    /\ pages = [u \in MainUrls |-> FailPage]
    /\ IdleRun
    /\ NoFaults

FetchSitemapCall ==
    /\ \E out \in fetch_sitemap(sitemaps, SiteLoc(1)) :
         fetchOut' = [called |-> TRUE, loc |-> SiteLoc(1), result |-> out]
    /\ UNCHANGED <<file, remoteVars, runVars, lastSave, envVars, storeAccess, probeVars>>

NextFetch == FetchSitemapCall

SpecFetch == InitFetch /\ [][NextFetch]_vars

-----------------------------------------------------------------------------
(* The crawl under faults: a descriptor without a required key, a file that  *)
(* does not parse, a disk that refuses writes, an interrupt.                 *)
NoName == [sitemap |-> SiteLoc(1), is_own_site |-> TRUE]
NoSitemap == [name |-> "B", is_own_site |-> FALSE]

FaultConfigs == {WEBSITES, <<NoName, WEBSITES[2]>>, <<WEBSITES[1], NoSitemap>>}

FaultSitemaps ==
    { [l \in MainLocs |->
          IF l = SiteLoc(1) THEN a
          ELSE IF l = SiteLoc(2) THEN StdDoc(<<Plain(Url(2)), Entry(Url(3), "T3", FALSE)>>)
          ELSE C2Doc]
      : a \in {StdDoc(<<Plain(Url(1)), Plain(Url(2)), Plain(Url(3))>>),
                StdDoc(<<Plain(Url(1))>>), ErrorDoc} }

FaultPages ==
    { [u \in MainUrls |->
          IF u = Url(1) THEN p1 ELSE IF u = Url(2) THEN OkPage("P2") ELSE OkPage("P3")]
      : p1 \in {OkPage("P1"), FailPage} }

FaultFiles == MainFiles \cup {Unparsable}

InitFaults ==
    /\ file \in FaultFiles
    /\ sitemaps \in FaultSitemaps
    /\ pages \in FaultPages
    /\ websites \in FaultConfigs
    /\ writable \in BOOLEAN
    /\ DefaultMonitor
    /\ IdleRun

NextFaults ==
    \/ \E cap \in 1..MaxCap : StartRun(cap)
    \/ BeginSite
    \/ WorkerStart
    \/ WorkerFinish
    \/ Collect
    \/ EndSite
    \/ Finish
    \/ Interrupt

SpecFaults == InitFaults /\ [][NextFaults]_vars

-----------------------------------------------------------------------------
(* Properties of the store.                                                  *)
UrlsOf(rows) == {r.url : r \in Range(rows)}

C2_UrlUnique ==
    lastSave.called => \A u \in UrlsOf(Rows(file)) : CountUrl(file, u) <= 1

-----------------------------------------------------------------------------
(* Properties of fetch_sitemap.                                              *)
IsIndex(doc) == doc.status = "ok" /\ doc.idxTok

(* What a child that is not an index hands back.                             *)
LeafArticles(doc) ==
    IF doc.status = "error" THEN <<>>
    ELSE IF doc.newsTok THEN parse_news_sitemap(doc)
    ELSE parse_standard_sitemap(doc)

ChildCalls(r, parent) == {c \in r.calls : c.parent = parent}

(* C9: for an index of m child locations, the children fetched are exactly   *)
(* the first min(m, 20) in document order; none beyond the cap is fetched.   *)
C9_FanoutCap ==
    (fetchOut.called /\ IsIndex(sitemaps[fetchOut.loc])) =>
        LET top == sitemaps[fetchOut.loc]
            m == Len(top.locs)
            kids == ChildCalls(fetchOut.result, fetchOut.loc)
        IN /\ Cardinality(kids) <= Min(m, MaxIndexFanout)
           /\ {c.pos : c \in kids} = 1..Min(m, MaxIndexFanout)
           /\ \A c \in kids : c.loc = top.locs[c.pos]
           /\ \A k \in (MaxIndexFanout + 1)..m :
                  \A c \in fetchOut.result.calls : c.loc # top.locs[k]

(* An index longer than the cap, with a listing child behind the cap whose   *)
(* articles are not in the result; exactly 20 children were fetched.         *)
C9_Witness ==
    /\ fetchOut.called
    /\ IsIndex(sitemaps[fetchOut.loc])
    /\ LET top == sitemaps[fetchOut.loc] IN
       /\ Len(top.locs) > MaxIndexFanout
       /\ Cardinality(ChildCalls(fetchOut.result, fetchOut.loc)) = MaxIndexFanout
       /\ \E k \in (MaxIndexFanout + 1)..Len(top.locs) :
            /\ Len(LeafArticles(sitemaps[top.locs[k]])) > 0
            /\ \A a \in Range(LeafArticles(sitemaps[top.locs[k]])) :
                   a \notin Range(fetchOut.result.articles)

RECURSIVE SumLen(_, _, _)
SumLen(sm, locs, n) ==
    IF n = 0 THEN 0 ELSE Len(LeafArticles(sm[locs[n]])) + SumLen(sm, locs, n - 1)

(* C10: fetch_sitemap never raises; a failed top-level fetch returns the     *)
(* empty list; a failed child of an index adds nothing, and the articles of  *)
(* every other fetched child are all in the flattened result.                *)
C10_FetchIsolation ==
    fetchOut.called =>
        LET top == sitemaps[fetchOut.loc]
            r == fetchOut.result
            n == Min(Len(top.locs), MaxIndexFanout)
        IN /\ ~r.raised
           /\ top.status = "error" => r.articles = <<>>
           /\ IsIndex(top) =>
                /\ \A i \in 1..n :
                       \A a \in Range(LeafArticles(sitemaps[top.locs[i]])) :
                           a \in Range(r.articles)
                /\ Len(r.articles) = SumLen(sitemaps, top.locs, n)

(* A fetched child failed, another fetched child lists articles, and they    *)
(* are in the result.                                                        *)
C10_Witness ==
    /\ fetchOut.called
    /\ IsIndex(sitemaps[fetchOut.loc])
    /\ LET top == sitemaps[fetchOut.loc]
           n == Min(Len(top.locs), MaxIndexFanout)
       IN \E i, j \in 1..n :
            /\ sitemaps[top.locs[i]].status = "error"
            /\ Len(LeafArticles(sitemaps[top.locs[j]])) > 0
            /\ \A a \in Range(LeafArticles(sitemaps[top.locs[j]])) :
                   a \in Range(fetchOut.result.articles)

-----------------------------------------------------------------------------
(* Properties of monitor_websites.                                           *)
SitemapUrls(i) ==
    UNION {UrlsOf(out.articles) : out \in fetch_sitemap(sitemaps, WEBSITES[i].sitemap)}

Succeeded(futs) == {i \in 1..Len(futs) : futs[i].result # None}

DistinctUrls(arts) ==
    \A i, j \in 1..Len(arts) : i # j => arts[i].url # arts[j].url

SaveCalled == \E i \in Sites : saves'[i] > saves[i]

C4_NoReextract ==
    /\ \A i \in 1..Len(futures) : futures[i].article.url \notin startUrls
    /\ run >= 1 =>
         \A i \in Sites : SitemapUrls(i) \subseteq startUrls => saves[i] = 0

(* Site 2 is extracting while its sitemap also lists a stored url, and every *)
(* url of site 1 was stored when the run started.                            *)
C4_Witness ==
    /\ pc = "extract"
    /\ siteIdx = 2
    /\ Len(futures) > 0
    /\ \E a \in Range(articles) : a.url \in startUrls
    /\ SitemapUrls(1) # {}
    /\ SitemapUrls(1) \subseteq startUrls
    /\ saves[1] = 0

(* C5: when a site's batch of distinct new urls is over, exactly the         *)
(* articles whose extraction returned an article are passed to save_articles *)
(* and are the rows appended; with none, nothing is saved; the run goes on   *)
(* to the next site.                                                         *)
C5_FailureIsolation ==
    [][ (pc = "extract" /\ pc' = "site" /\ DistinctUrls(new_articles)) =>
          LET ok == Succeeded(futures)
              k == Cardinality(ok)
              n == Len(Rows(file'))
          IN /\ siteIdx' = siteIdx + 1
             /\ IF k > 0
                THEN /\ SaveCalled
                     /\ lastSave'.before = file
                     /\ Len(lastSave'.batch) = k
                     /\ Range(lastSave'.batch) = {futures[i].result[1] : i \in ok}
                     /\ n >= k
                     /\ SubSeq(Rows(file'), n - k + 1, n) = to_csv(lastSave'.batch)
                ELSE ~SaveCalled /\ file' = file ]_vars

(* A batch of two tasks ended with one failure and one row saved.            *)
C5_Witness ==
    /\ pc = "site"
    /\ Len(futures) = 2
    /\ DistinctUrls(new_articles)
    /\ Cardinality(Succeeded(futures)) = 1
    /\ lastSave.called
    /\ Len(lastSave.batch) = 1
    /\ lastSave.batch[1] = futures[CHOOSE i \in Succeeded(futures) : TRUE].result[1]
    /\ Rows(file)[Len(Rows(file))].url = lastSave.batch[1].url

RunStep == BeginSite \/ WorkerStart \/ WorkerFinish \/ Collect \/ EndSite \/ Finish

C7_SingleBatchedPersist ==
    [][ /\ \A i \in Sites : saves'[i] <= 1
        /\ (SaveCalled \/ file' # file) =>
              /\ pc = "extract"
              /\ SaveCalled
              /\ \A i \in 1..Len(futures) : futures[i].state = "collected"
              /\ InFlight(futures) = 0
              /\ Succeeded(futures) # {}
              /\ saves' = [saves EXCEPT ![siteIdx] = 1]
        /\ (pc = "extract" /\ pc' = "site" /\ Succeeded(futures) = {}) =>
              (~SaveCalled /\ file' = file) ]_vars

(* Site 1 was saved once; site 2 ran its tasks, none succeeded, no save.     *)
C7_Witness ==
    /\ pc = "site"
    /\ siteIdx = 3
    /\ saves[1] = 1
    /\ saves[2] = 0
    /\ Len(futures) > 0
    /\ Succeeded(futures) = {}
    /\ \A i \in 1..Len(futures) : futures[i].state = "collected"

(* C8: at most max_articles_per_site articles are submitted per site, and    *)
(* the cap is taken from the list that is left after the known urls are      *)
(* removed: min(cap, number of unknown entries) are submitted.               *)
C8_CapAfterFilter ==
    [][ /\ Len(futures') <= max_articles_per_site'
        /\ (attempted' # attempted /\ Len(articles') > 0 /\ run' = run) =>
              LET unknown == Unknown(articles', existing_urls)
                  c == Min(max_articles_per_site, Len(unknown))
              IN /\ new_articles' = SubSeq(unknown, 1, c)
                 /\ c > 0 => (pc' = "extract" /\ Len(futures') = c
                              /\ \A i \in 1..c : futures'[i].article = unknown[i]) ]_vars

(* The sitemap starts with a stored url, and the full cap was submitted.     *)
C8_Witness ==
    /\ pc = "extract"
    /\ Len(articles) > max_articles_per_site
    /\ articles[1].url \in startUrls
    /\ Len(futures) = max_articles_per_site
    /\ \A i \in 1..Len(futures) : futures[i].article.url \notin startUrls

-----------------------------------------------------------------------------
(* Properties of the known-url set within a run.                             *)
Submitting == pc = "site" /\ pc' = "extract"

(* C11: within a run existing_urls only grows; when a site's sitemap is      *)
(* fetched and filtered, every url whose extraction returned an article      *)
(* earlier in the run is in existing_urls; and no such url is among the      *)
(* tasks submitted for the site.                                             *)
C11_IntraRunDedup ==
    [][ /\ run' = run => existing_urls \subseteq existing_urls'
        /\ (pc = "site" /\ run' = run) => extractedOk \subseteq existing_urls
        /\ Submitting =>
              \A i \in 1..Len(futures') :
                  futures'[i].article.url \notin extractedOk ]_vars

(* Site 2 is extracting; its sitemap also lists a url that site 1 extracted  *)
(* in this run, and that url is not among the submitted tasks.               *)
C11_Witness ==
    /\ pc = "extract"
    /\ siteIdx = 2
    /\ \E a \in Range(articles) : a.url \in extractedOk \ startUrls
    /\ Len(futures) > 0
    /\ \A i \in 1..Len(futures) : futures[i].state = "queued"
    /\ \A i \in 1..Len(futures) : futures[i].article.url \notin extractedOk

(* C12: a url whose extraction returned None earlier in the run is not among *)
(* the tasks submitted for a site.                                           *)
C12_NoRetry ==
    [][ Submitting =>
          \A i \in 1..Len(futures') :
              futures'[i].article.url \notin extractedNone ]_vars

-----------------------------------------------------------------------------
(* Properties of the error handling of a run.                                *)
WriteFailedAt(i) == ~writable /\ saves[i] > 0

(* C13: when the write of a site's batch fails, the error leaves             *)
(* monitor_websites: the run has stopped with that error and run() raised.   *)
C13_WriteFailureFatal ==
    (\E i \in Sites : WriteFailedAt(i)) =>
        (pc = "stopped" /\ escaped = "OSError" /\ runResult = "raised")

(* C14: once the loop has reached a descriptor without 'name' or 'sitemap',  *)
(* the KeyError has left monitor_websites and no handler has caught it.      *)
C14_ConfigErrorPropagates ==
    (run >= 1 /\ \E i \in Sites : ~HasKeys(websites[i]) /\ siteIdx > i) =>
        /\ pc = "stopped"
        /\ escaped = "KeyError"
        /\ \A h \in handled : h.exc # "KeyError"

(* C15: a run started on a file that exists and does not parse goes on with  *)
(* an empty known-url set: load_existing_data raised nothing.                *)
C15_LoadDegrades ==
    (run >= 1 /\ LoadRaises(file)) =>
        /\ escaped # "ParserError"
        /\ runResult # "raised"
        /\ existing_urls = {}
        /\ pc # "stopped" \/ escaped = "KeyboardInterrupt"

Interrupted == escaped' = "KeyboardInterrupt" /\ escaped # "KeyboardInterrupt"

(* C17: the step in which KeyboardInterrupt arrives writes nothing and calls *)
(* save_articles for no site, run() returns without raising, the site that   *)
(* was being processed has had no save, and the table stays as it is until   *)
(* another run is started.                                                   *)
C17_InterruptNoPartialWrite ==
    [][ /\ Interrupted =>
              /\ file' = file
              /\ saves' = saves
              /\ lastSave' = lastSave
              /\ pc' = "stopped"
              /\ runResult' = "returned"
              /\ siteIdx \in Sites => saves[siteIdx] = 0
        /\ (pc = "stopped" /\ run' = run) => file' = file ]_vars

(* The interrupt came while site 2 had an extracted article in hand; site 1  *)
(* had been saved; the table holds the rows of site 1 only.                  *)
C17_Witness ==
    /\ pc = "stopped"
    /\ escaped = "KeyboardInterrupt"
    /\ runResult = "returned"
    /\ siteIdx = 2
    /\ saves[1] = 1
    /\ saves[2] = 0
    /\ Len(processed_articles) > 0
    /\ \E i \in 1..Len(futures) : futures[i].state # "collected"
    /\ UrlsOf(Rows(file)) = {Url(1)}
    /\ \A a \in Range(processed_articles) : a.url \notin UrlsOf(Rows(file))

-----------------------------------------------------------------------------
(* C16: a save_articles call keeps every url of the table, and the first row *)
(* stored for a url has the same field values after the call as before.      *)
C16_AppendOnly ==
    [][ file.exists =>
          \A u \in UrlsOf(Rows(file)) :
              /\ u \in UrlsOf(Rows(file'))
              /\ FirstRow(file', u) = FirstRow(file, u) ]_vars

-----------------------------------------------------------------------------
(* Properties of extract_article_info.                                       *)
Filled(v) == v # "" /\ v # SinTitulo

KeepFields == {"url", "section", "source", "is_own_site", "last_modified"}
FillFields == {"title", "description", "image_url", "published_date"}

(* C18: a successful extraction leaves title, description, image_url and     *)
(* published_date as they were when they held a value (not empty, not the    *)
(* placeholder), and never changes url, section, source, is_own_site and     *)
(* last_modified.                                                            *)
C18_FieldFill ==
    (extractOut.called /\ extractOut.result # None) =>
        LET a == extractOut.article
            r == extractOut.result[1]
        IN /\ \A f \in KeepFields : r[f] = a[f]
           /\ \A f \in FillFields : Filled(a[f]) => r[f] = a[f]

RequestLevel(page) == page.status \in {"error", "nonhtml"}

(* C19: extract_article_info returns None on a request failure and on a     *)
(* response that is not HTML, and in every other case the article.           *)
C19_NullOnlyOnRequestFailure ==
    extractOut.called =>
        (extractOut.result = None <=> RequestLevel(pages[extractOut.article.url]))

-----------------------------------------------------------------------------
(* C20: every location _parse_sitemap_index returns is absolute, on the      *)
(* ElementTree path and on the fallback path alike.                          *)
C20_IndexLocsAbsolute ==
    indexOut.called => \A l \in Range(indexOut.result) : IsAbsolute(l)

-----------------------------------------------------------------------------
(* The parsers and the classification of fetch_sitemap on their own: one     *)
(* urlset document at the site's sitemap location, with or without each of   *)
(* the two tokens the classification looks for, holding up to MaxEntries     *)
(* <url> entries.  Every <loc> text of a document is a <loc> the index       *)
(* parser finds, and an article url fetched as a sitemap answers with a page *)
(* that holds no token and no <url>.                                         *)
MaxEntries == 2

RichEntry(u, n) == FullEntry(u, n, "T", "2024-01-01", "2024-01-01T10:00:00", "D", "I")
PoorEntry(u, n) == FullEntry(u, n, "", "", "", "", "")

SitemapEntries ==
    {RichEntry(u, n) : u \in {"", Url(1), Url(2)}, n \in BOOLEAN}
        \cup {PoorEntry(u, n) : u \in {"", Url(1), Url(2)}, n \in BOOLEAN}
        \cup {FullEntry(Url(1), TRUE, "T", "soon", "soon", "", "")}

UrlSetDoc(idx, news, es) ==
    [status |-> "ok", idxTok |-> idx, newsTok |-> news, wellFormed |-> TRUE,
     locs |-> [i \in 1..Len(es) |-> es[i].url], entries |-> es]

SitemapWorlds(n) ==
    {[l \in {SiteLoc(1), Url(1), Url(2)} |->
         IF l = SiteLoc(1) THEN UrlSetDoc(idx, news, es) ELSE StdDoc(<<>>)]
     : idx \in BOOLEAN, news \in BOOLEAN, es \in SeqsUpTo(SitemapEntries, n)}

InitSitemap ==
    /\ file = Absent
    /\ sitemaps \in SitemapWorlds(MaxEntries)
    /\ pages = [u \in MainUrls |-> FailPage]
    /\ IdleRun
    /\ NoFaults

NextSitemap == FetchSitemapCall

SpecSitemap == InitSitemap /\ [][NextSitemap]_vars

(* The <url> entries of the fetched document that have a <loc> text.          *)
TopDoc == sitemaps[fetchOut.loc]
TopCall == Call("top", 0, fetchOut.loc)
WithLoc(doc) == SelectSeq(doc.entries, LAMBDA e : e.url # "")
WithLocAndNews(doc) == SelectSeq(doc.entries, LAMBDA e : e.url # "" /\ e.news)

C22_StandardCarriesFields ==
    (fetchOut.called /\ Classify(TopDoc) = "standard") =>
        LET es == WithLoc(TopDoc)
            as == fetchOut.result.articles
        IN /\ Len(as) = Len(es)
           /\ \A i \in 1..Len(es) :
                 /\ as[i].url = es[i].url
                 /\ as[i].title = es[i].title
                 /\ as[i].description = es[i].description
                 /\ as[i].last_modified = ParseSitemapDate(es[i].lastmod)
                 /\ as[i].image_url = es[i].image

(* C23: a document with the index token is resolved as an index, whatever    *)
(* else it holds; without it, one with the news token goes to the news       *)
(* parser; every other document goes to the standard parser.                 *)
C23_ClassificationPrecedence ==
    fetchOut.called =>
        LET doc == TopDoc
            r == fetchOut.result
            urls == ParsedLocs(doc.locs)
        IN IF doc.idxTok
           THEN r.calls = {TopCall} \cup
                          {Call(fetchOut.loc, i, urls[i]) : i \in 1..Len(urls)}
           ELSE /\ r.calls = {TopCall}
                /\ r.articles = IF doc.newsTok THEN parse_news_sitemap(doc)
                                 ELSE parse_standard_sitemap(doc)

C23_Witness ==
    /\ fetchOut.called
    /\ TopDoc.idxTok /\ TopDoc.newsTok
    /\ Len(WithLocAndNews(TopDoc)) = 2
    /\ Cardinality(fetchOut.result.calls) = 3

-----------------------------------------------------------------------------
(* _parse_date on its own: texts of each shape with leading numbers up to    *)
(* MaxField and around the month ends, with dateutil installed or not.       *)
MaxField == 13

DateNumbers(n) == (1..n) \cup {28, 29, 30, 31, 32}

DateTexts(n) ==
    {DateText(k, a, b, t) : k \in {"iso", "slash"}, a \in DateNumbers(n),
                            b \in DateNumbers(n), t \in BOOLEAN}
        \cup {DateText("loose", 1, 5, FALSE), DateText("junk", 0, 0, FALSE),
              DateText("empty", 0, 0, FALSE), NoText}

InitDate ==
    /\ file = Absent
    /\ sitemaps = [l \in MainLocs |-> ErrorDoc]
    /\ pages = [u \in MainUrls |-> FailPage]
    /\ IdleRun
    /\ NoFaults

ParseDateCall ==
    /\ \E s \in DateTexts(MaxField), du \in BOOLEAN :
         dateOut' = [called |-> TRUE, text |-> s, dateutil |-> du,
                     result |-> parse_date(s, du)]
    /\ UNCHANGED <<file, remoteVars, runVars, lastSave, fetchOut, envVars,
                   storeAccess, extractOut, indexOut>>

NextDate == ParseDateCall

SpecDate == InitDate /\ [][NextDate]_vars

(* C24: the first format of the list that matches decides: an ISO text is    *)
(* read as year-month-day, a slash text valid both ways is read day first    *)
(* (01/02/2023 is 1 February), a slash text valid only month first is read   *)
(* month first (12/31/2022 is 31 December); None, '' and a text no parser    *)
(* accepts give None.                                                        *)
C24_DateFormatOrder ==
    dateOut.called =>
        LET s == dateOut.text
            r == dateOut.result
        IN /\ (s.kind = "iso" /\ ValidDate(s.a, s.b)) => r = Some(Date(s.a, s.b))
           /\ (s.kind = "slash" /\ ValidDate(s.b, s.a)) => r = Some(Date(s.b, s.a))
           /\ (s.kind = "slash" /\ ~ValidDate(s.b, s.a) /\ ValidDate(s.a, s.b))
                  => r = Some(Date(s.a, s.b))
           /\ (s.kind = "slash" /\ ~ValidDate(s.b, s.a) /\ ~ValidDate(s.a, s.b))
                  => r = None
           /\ s.kind \in {"none", "empty", "junk"} => r = None

C24_Witness ==
    /\ dateOut.called
    /\ dateOut.text = DateText("slash", 1, 2, FALSE)
    /\ dateOut.result = Some(Date(2, 1))

-----------------------------------------------------------------------------
(* Runs of a configured monitor: DiscoverMonitor(output_file, max_workers)   *)
(* with and without each argument, on sitemaps whose entries carry every     *)
(* element the parsers read, a store that holds full rows, a sitemap that    *)
(* lists a url twice, and a page whose <title> is empty.                     *)
OtherFile == "out/articles.csv"

FullRow(u, t, src) ==
    [url |-> u, title |-> t, section |-> SectionOf(u), description |-> "",
     source |-> src, is_own_site |-> "True", published_date |-> "",
     last_modified |-> "", image_url |-> ""]

MonitorFiles == {Absent, Table(<<FullRow(Url(1), "Old", "A")>>)}

MonitorSitemaps ==
    { [l \in MainLocs |->
          IF l = SiteLoc(1) THEN a ELSE IF l = SiteLoc(2) THEN b ELSE ErrorDoc]
      : a \in {StdDoc(<<PoorEntry(Url(2), FALSE), PoorEntry(Url(2), FALSE)>>),
                StdDoc(<<RichEntry(Url(1), FALSE), PoorEntry(Url(2), FALSE),
                         RichEntry(Url(3), FALSE)>>)},
        b \in {StdDoc(<<PoorEntry(Url(3), FALSE)>>),
                NewsDoc(<<RichEntry(Url(2), TRUE), PoorEntry(Url(3), TRUE)>>)} }

MonitorPages ==
    { [u \in MainUrls |->
          IF u = Url(1) THEN OkPage("P1") ELSE IF u = Url(2) THEN p2 ELSE p3]
      : p2 \in {OkPage("P2"), OkPage(""), FailPage},
        p3 \in {OkPage("P3"), Page("ok", FALSE, "", "")} }

InitMonitor ==
    /\ file \in MonitorFiles
    /\ sitemaps \in MonitorSitemaps
    /\ pages \in MonitorPages
    /\ IdleRun
    /\ websites = WEBSITES
    /\ writable = TRUE
    /\ output_file \in {OutputFile(""), OutputFile(OtherFile)}
    /\ max_workers \in {1, DefaultMaxWorkers}
    /\ storeAccess = {}

SpecMonitor == InitMonitor /\ [][Next]_vars

(* C25: a monitor built with output_file = F opens F, and no other path, as  *)
(* its article store.                                                        *)
C25_OutputFileIsStore == storeAccess \subseteq {output_file}

(* The columns of a persisted row according to Article.to_dict.              *)
PersistedColumns ==
    {"url", "title", "section", "description", "source", "is_own_site",
     "published_date", "last_modified", "image_url", "timestamp"}

(* C26: every row of the table a run has written has the nine article        *)
(* columns and the ingestion timestamp.                                      *)
C26_RowShape ==
    lastSave.called => \A r \in Range(Rows(file)) : DOMAIN r = PersistedColumns

(* C27: no row of the table a run has written has an empty title.            *)
C27_TitleNonEmpty ==
    lastSave.called => \A r \in Range(Rows(file)) : r.title # ""

(* C28: at most max_workers extractions are in flight at any moment.         *)
C28_PoolBound == InFlight(futures) <= max_workers

(* C30: when monitor_websites completes, the total it reports is the number  *)
(* of rows by which the table grew during the run.                           *)
C30_TallyIsGrowth == pc = "done" => total_new = appended

-----------------------------------------------------------------------------
(* fetch_sitemap on sitemap trees that may contain cycles: three locations,  *)
(* each an index of up to MaxCycleLocs of the three locations, a standard    *)
(* sitemap or a failing request.                                             *)
MaxCycleLocs == 2

CycleLocs == {SiteLoc(1), ChildLoc(1), ChildLoc(2)}

CycleDocs(n) ==
    {IndexDoc(ls) : ls \in SeqsUpTo(CycleLocs, n) \ {<<>>}}
        \cup {StdDoc(<<Plain(Url(1))>>), ErrorDoc}

CycleWorlds(n) ==
    {[l \in CycleLocs |->
         IF l = SiteLoc(1) THEN a ELSE IF l = ChildLoc(1) THEN b ELSE c]
     : a \in {IndexDoc(ls) : ls \in SeqsUpTo(CycleLocs, n) \ {<<>>}},
       b \in CycleDocs(1), c \in {StdDoc(<<Plain(Url(2))>>), IndexDoc(<<SiteLoc(1)>>)}}

InitCycle ==
    /\ file = Absent
    /\ sitemaps \in CycleWorlds(MaxCycleLocs)
    /\ pages = [u \in MainUrls |-> FailPage]
    /\ IdleRun
    /\ NoFaults

NextCycle == FetchSitemapCall

SpecCycle == InitCycle /\ [][NextCycle]_vars

(* C29: fetch_sitemap returns after a bounded number of fetches: on three    *)
(* documents no chain of nested fetches is MaxDepth long, so the resolution  *)
(* ends by itself, also when an index lists itself or two list each other.   *)
C29_ResolutionTerminates == fetchOut.called => ~fetchOut.result.cut

=============================================================================
